---- MODULE Spec2Model ----
(***************************************************************************)
(* Working-day arithmetic of rpa-dates: DateService.add_working_days and   *)
(* DateService._get_holiday_set (src/src/service.py), with                 *)
(* DateService.normalize as its precondition and the HolidayProvider as    *)
(* its environment.                                                        *)
(*                                                                         *)
(* A date is its proleptic Gregorian ordinal (date.toordinal()), a         *)
(* datetime is [ord, tod] with tod the seconds since midnight.             *)
(***************************************************************************)
EXTENDS Integers, Sequences, FiniteSets, TLC

(***************************************************************************)
(* Bounds of the model.                                                    *)
(***************************************************************************)
\* The large offsets of Spec reach MaxSpanSteps multiples of the 200-day estimate.
MaxSpanSteps == 1
\* The offsets of two interleaved invocations (SpecConc) are -MaxConcDays..MaxConcDays.
MaxConcDays == 2

(***************************************************************************)
(* The calendar of datetime.date.                                          *)
(***************************************************************************)
IsLeap(y) == (y % 4 = 0) /\ ((y % 100 # 0) \/ (y % 400 = 0))

DaysBeforeYear(y) ==
    (y - 1) * 365 + ((y - 1) \div 4) - ((y - 1) \div 100) + ((y - 1) \div 400)

DaysInMonth(y, m) ==
    IF m = 2 THEN (IF IsLeap(y) THEN 29 ELSE 28)
    ELSE IF m \in {4, 6, 9, 11} THEN 30 ELSE 31

RECURSIVE DaysBeforeMonth(_, _)
DaysBeforeMonth(y, m) ==
    IF m <= 1 THEN 0 ELSE DaysBeforeMonth(y, m - 1) + DaysInMonth(y, m - 1)

\* date(y, m, d).toordinal()
Ord(y, m, d) == DaysBeforeYear(y) + DaysBeforeMonth(y, m) + d

\* dt.year
YearOf(o) ==
    CHOOSE y \in ((o * 400) \div 146097)..(((o * 400) \div 146097) + 2) :
        DaysBeforeYear(y) < o /\ o <= DaysBeforeYear(y + 1)

\* current.weekday(): Monday is 0, Sunday is 6
Weekday(o) == (o + 6) % 7

(***************************************************************************)
(* Values.                                                                 *)
(***************************************************************************)
\* A datetime; NoDate stands for "no value" (ordinals start at 1).
DateTime(o, t) == [ord |-> o, tod |-> t]
NoDate == [ord |-> 0, tod |-> 0]

\* The shapes of DateInput, and of the values normalize rejects.
InDateTime(o, t) == [kind |-> "datetime", ord |-> o, tod |-> t, text |-> <<>>]
InDate(o) == [kind |-> "date", ord |-> o, tod |-> 0, text |-> <<>>]
InStr(text) == [kind |-> "str", ord |-> 0, tod |-> 0, text |-> text]
InNone == [kind |-> "none", ord |-> 0, tod |-> 0, text |-> <<>>]
InInt == [kind |-> "int", ord |-> 0, tod |-> 0, text |-> <<>>]

\* country_code: None, the empty string, or a code.
Absent == "<None>"
Empty == ""

\* An outcome of a call: a value or a raised error.
NoError == [class |-> "", year |-> 0]
Raised(class, year) == [class |-> class, year |-> year]

(***************************************************************************)
(* DateService.normalize                                                   *)
(***************************************************************************)
\* datetime.strptime(text, format): the text is its fields <<year, month, day>>;
\* anything that is not a date of the calendar is a ValueError.
StrParses(text) ==
    /\ Len(text) = 3
    /\ text[1] >= 1
    /\ text[2] \in 1..12
    /\ text[3] \in 1..DaysInMonth(text[1], text[2])

\* normalize(date_input); now is the reading of datetime.now().
normalize(date_input, now) ==
    IF date_input.kind = "none"
    THEN [err |-> NoError, dt |-> now]
    ELSE IF date_input.kind = "datetime"
    THEN [err |-> NoError, dt |-> DateTime(date_input.ord, date_input.tod)]
    ELSE IF date_input.kind = "date"
    THEN [err |-> NoError, dt |-> DateTime(date_input.ord, 0)]
    ELSE IF date_input.kind = "str"
    THEN IF StrParses(date_input.text)
         THEN [err |-> NoError,
               dt |-> DateTime(Ord(date_input.text[1], date_input.text[2],
                                   date_input.text[3]), 0)]
         ELSE [err |-> Raised("DateOperationError", 0), dt |-> NoDate]
    ELSE [err |-> Raised("TypeError", 0), dt |-> NoDate]

(***************************************************************************)
(* The HolidayProvider: get_holidays(year, country_code).                  *)
(***************************************************************************)
USHolidays ==
    {Ord(2023, 12, 25), Ord(2024, 1, 1), Ord(2024, 1, 15), Ord(2024, 7, 4),
     Ord(2024, 12, 25), Ord(2025, 1, 1)}

DEHolidays ==
    {Ord(2023, 12, 25), Ord(2023, 12, 26), Ord(2024, 1, 1), Ord(2024, 1, 6),
     Ord(2024, 12, 25), Ord(2024, 12, 26), Ord(2025, 1, 1)}

\* The mock of tests/conftest.py: no holidays, never fails.
MockProvider == [data |-> [US |-> {}, DE |-> {}], fails |-> {}]
CalendarProvider == [data |-> [US |-> USHolidays, DE |-> DEHolidays], fails |-> {}]
FailingProvider == [data |-> [US |-> USHolidays, DE |-> DEHolidays], fails |-> {2025}]
Providers == {MockProvider, CalendarProvider, FailingProvider}

get_holidays(p, year, country_code) ==
    IF year \in p.fails
    THEN [err |-> Raised("ProviderError", year), dates |-> {}]
    ELSE [err |-> NoError,
          dates |-> IF country_code \in DOMAIN p.data
                    THEN {h \in p.data[country_code] : YearOf(h) = year}
                    ELSE {}]

(***************************************************************************)
(* Pieces of add_working_days and _get_holiday_set.                        *)
(***************************************************************************)
\* The estimate of working days per year, and what is added to it.
WorkingDaysPerYear == 200
SpanExtra == 2
\* current.weekday() < 5
FirstWeekendDay == 5

\* the short circuit left out
IsNoOp_Never(days) == FALSE

\* if days == 0
IsNoOp(days) == days = 0

\* the span without its days // 200 term
required_years_NoEstimate(year, days) == <<year, year + 1>>

\* list(range(dt.year, dt.year + (days // 200) + 2)); // is floor division, as \div
required_years(year, days) ==
    LET stop == year + (days \div WorkingDaysPerYear) + SpanExtra
    IN  [i \in 1..(IF stop > year THEN stop - year ELSE 0) |-> year + i - 1]

\* "if country_code is None": the empty string goes to the provider
NoCountry_OnlyNone(country_code) == country_code = Absent

\* if not country_code
NoCountry(country_code) == country_code \in {Absent, Empty}

\* the direction taken without regard to the sign
StepOf_AlwaysForward(days) == 1

\* step = 1 if days > 0 else -1
StepOf(days) == IF days > 0 THEN 1 ELSE -1

\* abs(days)
Abs(n) == IF n < 0 THEN -n ELSE n

\* current.weekday() < 5: the left operand of the test, a weekend date is not
\* looked up in the holiday set
IsWeekday(o) == Weekday(o) < FirstWeekendDay

\* the holiday lookup left out
IsWorkingDay_IgnoresHolidays(o, holidays) == Weekday(o) < FirstWeekendDay

\* current.weekday() < 5 and current.date() not in holidays
IsWorkingDay(o, holidays) == IsWeekday(o) /\ o \notin holidays

\* "while days_remaining >= 0"
LoopContinues_OffByOne(days_remaining) == days_remaining >= 0

\* while days_remaining > 0
LoopContinues(days_remaining) == days_remaining > 0

Range(s) == {s[i] : i \in DOMAIN s}

(***************************************************************************)
(* State.                                                                  *)
(***************************************************************************)
Callers == {1, 2}

VARIABLES
    provider,   \* self.holiday_provider: its data and the years it fails for
    frame,      \* per invocation: the locals of add_working_days / _get_holiday_set
    ret,        \* per invocation: what the call returned or raised
    hist        \* per invocation: the provider calls it made, the last date it looked
                \* up in the holiday set, and the call it is the inverse of

vars == <<provider, frame, ret, hist>>

IdleFrame ==
    [pc |-> "idle", date_input |-> InNone, days |-> 0, country_code |-> Absent,
     now |-> NoDate, dt |-> NoDate, required_years |-> <<>>, i |-> 0,
     holidays |-> {}, step |-> 0, days_remaining |-> 0, current |-> NoDate]

NoReturn == [result |-> NoDate, error |-> NoError]

NoFirst == [dt |-> NoDate, days |-> 0, holidays |-> {}, made |-> FALSE]

NoHist == [queried |-> <<>>, tested |-> 0, steps |-> 0, first |-> NoFirst]

Init ==
    /\ provider \in Providers
    /\ frame = [c \in Callers |-> IdleFrame]
    /\ ret = [c \in Callers |-> NoReturn]
    /\ hist = [c \in Callers |-> NoHist]

(***************************************************************************)
(* add_working_days, up to its first provider call or its first loop test. *)
(***************************************************************************)
\* holidays is resolved: step, days_remaining and current are set (lines 240-242)
EnterLoop(f, holidays) ==
    [f EXCEPT !.pc = "loop", !.holidays = holidays, !.step = StepOf(f.days),
              !.days_remaining = Abs(f.days), !.current = f.dt]

\* the frame and the outcome right after the call is made
Entered(date_input, days, country_code, now) ==
    LET n == normalize(date_input, now)
        f0 == [IdleFrame EXCEPT !.date_input = date_input, !.days = days,
                                !.country_code = country_code, !.now = now]
        years == required_years(YearOf(n.dt.ord), days)
        f1 == [f0 EXCEPT !.dt = n.dt, !.required_years = years]
    IN  IF n.err # NoError
        THEN [frame |-> [f0 EXCEPT !.pc = "raised"],
              ret |-> [result |-> NoDate, error |-> n.err]]
        ELSE IF IsNoOp(days)
        THEN [frame |-> [f0 EXCEPT !.pc = "returned"],
              ret |-> [result |-> n.dt, error |-> NoError]]
        ELSE IF NoCountry(country_code) \/ years = <<>>
        THEN [frame |-> EnterLoop(f1, {}), ret |-> NoReturn]
        ELSE [frame |-> [f1 EXCEPT !.pc = "fetch", !.i = 1], ret |-> NoReturn]

add_working_days(c, date_input, days, country_code, now, first) ==
    LET e == Entered(date_input, days, country_code, now)
    IN  /\ frame' = [frame EXCEPT ![c] = e.frame]
        /\ ret' = [ret EXCEPT ![c] = e.ret]
        /\ hist' = [hist EXCEPT ![c] = [NoHist EXCEPT !.first = first]]
        /\ UNCHANGED provider

(***************************************************************************)
(* _get_holiday_set: one iteration of "for year in years".                 *)
(***************************************************************************)
\* the holidays kept in one set shared by every invocation of the service
Updated_Shared(c, dates) == UNION {frame[d].holidays : d \in Callers} \cup dates

\* holidays.update(...)
Updated(c, dates) == frame[c].holidays \cup dates

\* a provider error caught and taken for a year without holidays
AfterProviderCall_Swallows(c, ans) ==
    LET f == frame[c]
        dates == IF ans.err # NoError THEN {} ELSE ans.dates
    IN  IF f.i = Len(f.required_years)
        THEN [frame |-> EnterLoop(f, f.holidays \cup dates), ret |-> NoReturn]
        ELSE [frame |-> [f EXCEPT !.holidays = f.holidays \cup dates, !.i = f.i + 1],
              ret |-> NoReturn]

\* the frame and the outcome after the provider answered ans for the year
AfterProviderCall(c, ans) ==
    LET f == frame[c]
    IN  IF ans.err # NoError
        THEN [frame |-> [f EXCEPT !.pc = "raised"],
              ret |-> [result |-> NoDate, error |-> ans.err]]
        ELSE IF f.i = Len(f.required_years)
        THEN [frame |-> EnterLoop(f, Updated(c, ans.dates)), ret |-> NoReturn]
        ELSE [frame |-> [f EXCEPT !.holidays = Updated(c, ans.dates), !.i = f.i + 1],
              ret |-> NoReturn]

GetHolidays(c) ==
    /\ frame[c].pc = "fetch"
    /\ LET year == frame[c].required_years[frame[c].i]
           a == AfterProviderCall(c, get_holidays(provider, year, frame[c].country_code))
       IN  /\ frame' = [frame EXCEPT ![c] = a.frame]
           /\ ret' = [ret EXCEPT ![c] = a.ret]
           /\ hist' = [hist EXCEPT ![c].queried = Append(@, year)]
    /\ UNCHANGED provider

(***************************************************************************)
(* The stepping loop (lines 244-248).                                      *)
(***************************************************************************)
StepDay(c) ==
    /\ frame[c].pc = "loop"
    /\ LoopContinues(frame[c].days_remaining)
    /\ LET f == frame[c]
           next == f.current.ord + f.step
       IN  /\ frame' = [frame EXCEPT ![c] =
                  [f EXCEPT !.current = DateTime(next, f.current.tod),
                            !.days_remaining =
                                IF IsWorkingDay(next, f.holidays) THEN @ - 1 ELSE @]]
           /\ hist' = [hist EXCEPT ![c].steps = @ + 1,
                                   ![c].tested = IF IsWeekday(next) THEN next ELSE @]
    /\ UNCHANGED <<provider, ret>>

Return(c) ==
    /\ frame[c].pc = "loop"
    /\ ~LoopContinues(frame[c].days_remaining)
    /\ frame' = [frame EXCEPT ![c].pc = "returned"]
    /\ ret' = [ret EXCEPT ![c] = [result |-> frame[c].current, error |-> NoError]]
    /\ UNCHANGED <<provider, hist>>

(***************************************************************************)
(* Callers.                                                                *)
(***************************************************************************)
Clock == {DateTime(Ord(2024, 1, 2), 43200)}

DateInputs ==
    {InDateTime(Ord(2024, 1, 1), 34200),   \* a Monday, 09:30
     InDate(Ord(2023, 12, 30)),            \* a Saturday
     InDate(Ord(2024, 1, 3)),              \* a Wednesday
     InStr(<<2023, 12, 29>>),              \* a Friday
     InStr(<<2024, 2, 30>>),               \* no date
     InNone,
     InInt}

CountryCodes == {Absent, Empty, "US"}

LargeOffsets ==
    UNION {{k * WorkingDaysPerYear - 1, k * WorkingDaysPerYear,
            k * WorkingDaysPerYear + 1, k * WorkingDaysPerYear + 50} :
           k \in 1..MaxSpanSteps}

Offsets ==
    {0, 1, 5, -1, -3} \cup LargeOffsets \cup {-n : n \in LargeOffsets}

Call(c) ==
    /\ frame[c].pc = "idle"
    /\ \E date_input \in DateInputs, days \in Offsets,
          country_code \in CountryCodes, now \in Clock :
          add_working_days(c, date_input, days, country_code, now, NoFirst)

\* the caller hands the result back with the offset negated
CallInverse(c) ==
    /\ frame[c].pc = "returned"
    /\ ~hist[c].first.made
    /\ add_working_days(c, InDateTime(ret[c].result.ord, ret[c].result.tod),
                        -frame[c].days, frame[c].country_code, frame[c].now,
                        [dt |-> IF IsNoOp(frame[c].days) THEN ret[c].result
                                ELSE frame[c].dt,
                         days |-> frame[c].days,
                         holidays |-> frame[c].holidays, made |-> TRUE])

Next ==
    \/ Call(1)
    \/ CallInverse(1)
    \/ GetHolidays(1)
    \/ StepDay(1)
    \/ Return(1)

Spec == Init /\ [][Next]_vars

(***************************************************************************)
(* Two invocations on one DateService, interleaved at every provider call  *)
(* and every loop iteration.                                               *)
(***************************************************************************)
ConcInputs ==
    {InDate(Ord(2023, 12, 22)),             \* a Friday before two holidays
     InDateTime(Ord(2023, 12, 29), 34200),  \* a Friday before New Year
     InDate(Ord(2024, 1, 2))}               \* a Tuesday after New Year

ConcCountryCodes == {Absent, "US", "DE"}

ConcOffsets == (-MaxConcDays)..MaxConcDays

ConcCall(c) ==
    /\ frame[c].pc = "idle"
    /\ \E date_input \in ConcInputs, days \in ConcOffsets,
          country_code \in ConcCountryCodes, now \in Clock :
          add_working_days(c, date_input, days, country_code, now, NoFirst)

NextConc ==
    \E c \in Callers :
        \/ ConcCall(c)
        \/ GetHolidays(c)
        \/ StepDay(c)
        \/ Return(c)

SpecConc == Init /\ [][NextConc]_vars

(***************************************************************************)
(* The caller's thread keeps running: the loop is not abandoned.           *)
(***************************************************************************)
FairSpec == Spec /\ WF_vars(StepDay(1)) /\ WF_vars(Return(1))

(***************************************************************************)
(* Vocabulary of the properties, stated without the operators of the code. *)
(***************************************************************************)
MonFri(o) == Weekday(o) \in 0..4

\* the dates from the start (excluded) to r (included), on either side of the start
Between(start, r) == IF r > start THEN (start + 1)..r ELSE r..(start - 1)

\* how many Monday-Friday dates outside H lie between the start and r
Qualifying(start, r, H) ==
    Cardinality({d \in Between(start, r) : MonFri(d) /\ d \notin H})

\* r is the n-th Monday-Friday date outside H beyond the start, on the side of n
IsNthWorkingDay(start, n, H, r) ==
    /\ n > 0 => r > start
    /\ n < 0 => r < start
    /\ MonFri(r)
    /\ r \notin H
    /\ Qualifying(start, r, H) = (IF n < 0 THEN -n ELSE n)

\* the years a, a+1, ..., b in ascending order
YearsThrough(a, b) == [i \in 1..(IF b >= a THEN b - a + 1 ELSE 0) |-> a + i - 1]

IsPrefix(s, t) == Len(s) <= Len(t) /\ \A i \in 1..Len(s) : s[i] = t[i]

InCall(c) == frame[c].pc \in {"fetch", "loop", "returned", "raised"}
Resolved(c) == frame[c].pc \in {"loop", "returned"}
Returned(c) == frame[c].pc = "returned"

(***************************************************************************)
(* C1. Stepping contract: for every start, nonzero offset n and holiday    *)
(* set H handed to the loop, the dates counted so far are exactly the      *)
(* Monday-Friday dates outside H between the start (excluded) and the      *)
(* current date (included); the result lies strictly beyond the start on   *)
(* the side of n, is a Monday-Friday date outside H, and exactly |n| such  *)
(* dates lie between the start (excluded) and the result (included).       *)
(***************************************************************************)
C1_StepperContract ==
    \A c \in Callers :
        (Resolved(c) /\ frame[c].days # 0) =>
            LET f == frame[c]
            IN  /\ Qualifying(f.dt.ord, f.current.ord, f.holidays)
                       = Abs(f.days) - f.days_remaining
                /\ Returned(c) =>
                       /\ ret[c].error = NoError
                       /\ IsNthWorkingDay(f.dt.ord, f.days, f.holidays,
                                          ret[c].result.ord)

\* a backward call that crossed a Monday-Friday holiday has returned
C1_Witness ==
    /\ Returned(1)
    /\ frame[1].days = -3
    /\ \E h \in frame[1].holidays :
           ret[1].result.ord < h /\ h < frame[1].dt.ord /\ MonFri(h)

(***************************************************************************)
(* C2. Offset 0: add_working_days(d, 0, cc) returns exactly normalize(d)   *)
(* (or raises what normalize raises) for every country code, takes no      *)
(* step and makes no call to the provider.                                 *)
(***************************************************************************)
C2_ZeroOffset ==
    \A c \in Callers :
        (InCall(c) /\ frame[c].days = 0) =>
            LET n == normalize(frame[c].date_input, frame[c].now)
            IN  /\ hist[c].queried = <<>>
                /\ hist[c].steps = 0
                /\ frame[c].current = NoDate
                /\ ret[c].error = n.err
                /\ ret[c].result = n.dt
                /\ frame[c].pc = (IF n.err = NoError THEN "returned" ELSE "raised")

\* a zero offset with a country code and a date that normalize widens has returned
C2_Witness ==
    /\ Returned(1)
    /\ frame[1].days = 0
    /\ frame[1].country_code = "US"
    /\ frame[1].date_input.kind = "date"
    /\ ret[1].result = DateTime(frame[1].date_input.ord, 0)

(***************************************************************************)
(* C3. Round trip.  As claimed: with an empty holiday set on both legs,    *)
(* add_working_days(add_working_days(d, n, cc), -n, cc) is d, for every    *)
(* start d and every integer n.                                            *)
(***************************************************************************)
RoundTripDone(c) ==
    /\ Returned(c)
    /\ hist[c].first.made
    /\ hist[c].first.holidays = {}
    /\ frame[c].holidays = {}

C3_RoundTripAnyStart ==
    \A c \in Callers :
        RoundTripDone(c) => ret[c].result = hist[c].first.dt

(***************************************************************************)
(* C3, amended. With an empty holiday set on both legs and a start d that  *)
(* is a Monday-Friday date, the round trip returns normalize(d), for every *)
(* integer n.                                                              *)
(***************************************************************************)
C3_RoundTripFromWeekday ==
    \A c \in Callers :
        (RoundTripDone(c) /\ MonFri(hist[c].first.dt.ord)) =>
            ret[c].result = hist[c].first.dt

\* a round trip of 250 days and back from a Monday-Friday start has returned
C3_Witness ==
    /\ RoundTripDone(1)
    /\ MonFri(hist[1].first.dt.ord)
    /\ hist[1].first.days = 250
    /\ frame[1].days = -250
    /\ hist[1].steps > 250

(***************************************************************************)
(* C4. Year span.  As claimed: for a positive offset n and a non-empty     *)
(* country code, the provider is called exactly once for each year from    *)
(* refYear through refYear + floor(n / 200) + 2 inclusive, in that order,  *)
(* and for no other year.                                                  *)
(***************************************************************************)
C4_SpanThroughPlus2 ==
    \A c \in Callers :
        (Resolved(c) /\ frame[c].days > 0 /\ frame[c].country_code \notin {Absent, Empty}) =>
            hist[c].queried =
                YearsThrough(YearOf(frame[c].dt.ord),
                             YearOf(frame[c].dt.ord) + (frame[c].days \div 200) + 2)

(***************************************************************************)
(* C4, amended. For a positive offset n and a non-empty country code, the  *)
(* provider is called exactly once for each year from refYear through      *)
(* refYear + floor(n / 200) + 1 inclusive, in that order, and for no other *)
(* year: three years for n = 250.  While the years are being fetched, and  *)
(* when the provider fails, the calls made are a prefix of that span.      *)
(***************************************************************************)
C4_SpanThroughPlus1 ==
    \A c \in Callers :
        (InCall(c) /\ frame[c].days > 0 /\ frame[c].dt # NoDate
                   /\ frame[c].country_code \notin {Absent, Empty}) =>
            LET span == YearsThrough(YearOf(frame[c].dt.ord),
                                     YearOf(frame[c].dt.ord) + (frame[c].days \div 200) + 1)
            IN  /\ IsPrefix(hist[c].queried, span)
                /\ Resolved(c) => hist[c].queried = span

\* a call with offset 250 has queried exactly refYear, refYear+1, refYear+2
C4_Witness ==
    /\ Returned(1)
    /\ frame[1].days = 250
    /\ frame[1].country_code = "US"
    /\ hist[1].queried = <<YearOf(frame[1].dt.ord), YearOf(frame[1].dt.ord) + 1,
                           YearOf(frame[1].dt.ord) + 2>>

(***************************************************************************)
(* C5. Year-span sufficiency, as claimed: for every nonzero offset of      *)
(* either sign and a non-empty country code, provided every calendar year  *)
(* has at least 200 working days, every date the loop looks up in the      *)
(* holiday set has a year that was queried from the provider.              *)
(***************************************************************************)
\* every year of the provider's data keeps at least 200 working days: a year has
\* at least 260 Monday-Friday dates
EveryYearHas200WorkingDays ==
    \A cc \in DOMAIN provider.data : 260 - Cardinality(provider.data[cc]) >= 200

C5_SpanCoversTestedDates ==
    \A c \in Callers :
        (Resolved(c) /\ frame[c].days # 0 /\ hist[c].tested # 0
                     /\ frame[c].country_code \notin {Absent, Empty}) =>
            \/ YearOf(hist[c].tested) \in Range(hist[c].queried)
            \/ ~EveryYearHas200WorkingDays

(***************************************************************************)
(* C6. Shape of the span, as claimed: for every nonzero offset of either   *)
(* sign and a non-empty country code, the years to query are a non-empty   *)
(* contiguous ascending sequence containing the year of the start, and     *)
(* offsets n and -n from the same start give the same years.               *)
(***************************************************************************)
C6_SpanShape ==
    \A c \in Callers :
        (InCall(c) /\ frame[c].days # 0 /\ frame[c].dt # NoDate
                   /\ frame[c].country_code \notin {Absent, Empty}) =>
            LET ys == frame[c].required_years
            IN  /\ ys # <<>>
                /\ \A i \in 1..(Len(ys) - 1) : ys[i + 1] = ys[i] + 1
                /\ YearOf(frame[c].dt.ord) \in Range(ys)
                /\ ys = required_years(YearOf(frame[c].dt.ord), -frame[c].days)
                /\ IsPrefix(hist[c].queried, ys)

(***************************************************************************)
(* C7. Provider failure: once the provider has raised for a year, the call *)
(* has raised that same error and returned no date; the failed year is the *)
(* last one requested, no year was requested twice, and the loop never ran.*)
(***************************************************************************)
C7_ProviderFailure ==
    \A c \in Callers :
        (\E i \in 1..Len(hist[c].queried) : hist[c].queried[i] \in provider.fails) =>
            LET q == hist[c].queried
                failed == q[Len(q)]
            IN  /\ frame[c].pc = "raised"
                /\ failed \in provider.fails
                /\ \A i \in 1..(Len(q) - 1) : q[i] \notin provider.fails
                /\ \A i, j \in 1..Len(q) : i # j => q[i] # q[j]
                /\ ret[c].error = [class |-> "ProviderError", year |-> failed]
                /\ ret[c].result = NoDate
                /\ hist[c].steps = 0
                /\ frame[c].current = NoDate

\* the provider failed on the second year of a span, after one year was fetched
C7_Witness ==
    /\ frame[1].pc = "raised"
    /\ ret[1].error.class = "ProviderError"
    /\ Len(hist[1].queried) = 2
    /\ frame[1].holidays # {}

(***************************************************************************)
(* C8. Without a country code (None or ""), no provider call is made for   *)
(* any offset and start, and the result is the |n|-th Monday-Friday date   *)
(* beyond the start: the stepping saw an empty holiday set.                *)
(***************************************************************************)
C8_NoCountryCode ==
    \A c \in Callers :
        (InCall(c) /\ frame[c].country_code \in {Absent, Empty}) =>
            /\ hist[c].queried = <<>>
            /\ frame[c].holidays = {}
            /\ (Returned(c) /\ frame[c].days # 0) =>
                   IsNthWorkingDay(frame[c].dt.ord, frame[c].days, {},
                                   ret[c].result.ord)

\* 2024-01-01 plus 5 working days with country code "" is 2024-01-08
C8_Witness ==
    /\ Returned(1)
    /\ frame[1].country_code = Empty
    /\ frame[1].dt.ord = Ord(2024, 1, 1)
    /\ frame[1].days = 5
    /\ ret[1].result = DateTime(Ord(2024, 1, 8), 34200)

(***************************************************************************)
(* C9. Independence: however two invocations interleave, each queries the  *)
(* provider for its own span, steps over exactly the holidays the provider *)
(* holds for its own span and country code, and returns what it returns    *)
(* when it runs alone.                                                     *)
(***************************************************************************)
OwnHolidays(c) ==
    UNION {get_holidays(provider, y, frame[c].country_code).dates :
           y \in Range(frame[c].required_years)}

C9_Independence ==
    \A c \in Callers :
        (Resolved(c) /\ frame[c].days # 0) =>
            /\ frame[c].country_code \notin {Absent, Empty} =>
                   /\ hist[c].queried = frame[c].required_years
                   /\ frame[c].holidays = OwnHolidays(c)
            /\ Returned(c) =>
                   IsNthWorkingDay(frame[c].dt.ord, frame[c].days,
                                   IF frame[c].country_code \in {Absent, Empty}
                                   THEN {} ELSE OwnHolidays(c),
                                   ret[c].result.ord)

\* one invocation is inside its loop while the other, for another country, is
\* between two provider calls; the first then returns its own answer
C9_Witness ==
    /\ Returned(1)
    /\ frame[1].country_code = "US"
    /\ frame[1].days = 1
    /\ frame[1].dt.ord = Ord(2023, 12, 22)
    /\ ret[1].result.ord = Ord(2023, 12, 26)
    /\ frame[2].pc = "fetch"
    /\ frame[2].country_code = "DE"
    /\ Len(hist[2].queried) = 1
    /\ frame[2].holidays # {}

(***************************************************************************)
(* C10. Termination: the loop eventually returns; it returns on the step   *)
(* on which the remaining count reaches zero, without another calendar-day *)
(* step; the remaining count never increases and never goes below zero.    *)
(***************************************************************************)
C10_Termination ==
    /\ \A c \in {1} : (frame[c].pc = "loop") ~> (frame[c].pc = "returned")
    /\ [][\A c \in Callers :
            (frame[c].pc = "loop" /\ frame'[c] # frame[c]) =>
                /\ frame'[c].days_remaining <= frame[c].days_remaining
                /\ frame'[c].days_remaining >= 0
                /\ frame[c].days_remaining = 0 =>
                       /\ frame'[c].pc = "returned"
                       /\ frame'[c].current = frame[c].current
                       /\ ret'[c].result = frame[c].current]_vars

\* a call returned after skipping dates that did not count
C10_Witness ==
    /\ Returned(1)
    /\ frame[1].days = 5
    /\ frame[1].days_remaining = 0
    /\ hist[1].steps = 7

====
